---- MODULE Spec2Model ----
(***************************************************************************)
(* Timelock encryption (tlock): the age Recipient/Identity pair of         *)
(* tlock_age.go.  Wrap IBE-encrypts the age file key (DEK) to a beacon     *)
(* round; Unwrap recovers it once the beacon network has published the     *)
(* signature of that round.                                                *)
(*                                                                         *)
(* Byte strings are sequences of 0..255.  The pairing group is modelled    *)
(* in the exponent: a point a*G is the scalar a (mod Q), and the pairing   *)
(* e(a*G1, b*G2) is a*b mod Q.  Hashes are small arithmetic folds.         *)
(***************************************************************************)
EXTENDS Integers, Sequences, FiniteSets, TLC

\* ---------------------------------------------------------------- bounds
MaxRound == 2      \* beacon rounds are 1..MaxRound
MaxTamper == 2     \* rewrites applied to a stanza list after Wrap

\* ------------------------------------------------------------- constants
kyberPointLen == 48
cipherVLen == 16
cipherWLen == 16
kyberG2Len == 96   \* compressed G2 point (round signature)
Q == 46337         \* order of the model's pairing groups (prime)

Rounds == 1..MaxRound
Chains == {"A", "B"}

\* ------------------------------------------------------------ byte strings
\* a byte string given index by index, as a tuple
Bytes(f, n) == SubSeq(f, 1, n)

Zeros(n) == Bytes([i \in 1..n |-> 0], n)

\* Go's make([]byte, n)
Make(n) == Zeros(n)

\* Go's copy(dst, src): copies min(len(dst), len(src)) bytes, returns dst.
Copy(dst, src) ==
  Bytes([i \in 1..Len(dst) |-> IF i <= Len(src) THEN src[i] ELSE dst[i]], Len(dst))

\* copy that lands at the start of dst whatever the offset
CopyAt_IgnoresOffset(dst, off, src) == Copy(dst, src)

\* Go's copy(dst[off:], src)
CopyAt(dst, off, src) ==
  Bytes([i \in 1..Len(dst) |->
           IF i > off /\ i - off <= Len(src) THEN src[i - off] ELSE dst[i]],
        Len(dst))

\* Go's b[lo:hi] (0-based, hi exclusive)
Slice(b, lo, hi) == SubSeq(b, lo + 1, hi)

\* The IBE masks are applied bytewise; the model masks by addition mod 256
\* (Mask) and removes a mask by subtraction (Unmask), where the library xors.
Mask(a, b) == Bytes([i \in 1..Len(a) |-> (a[i] + b[i]) % 256], Len(a))

Unmask(a, b) == Bytes([i \in 1..Len(a) |-> (a[i] + 256 - b[i]) % 256], Len(a))

\* the arithmetic fold all the model's hashes are built on
\* (7 * 31^n + the sum of (b[i] + 1) * 31^(n - i)) mod Q, by halving
Fold(b) ==
  LET n == Len(b)
      P[k \in 0..n] ==
        IF k = 0 THEN 1
        ELSE IF k % 2 = 0 THEN (P[k \div 2] * P[k \div 2]) % Q
        ELSE (P[k - 1] * 31) % Q
      G[r \in (1..n) \X (1..n)] ==
        IF r[1] = r[2] THEN b[r[1]] + 1
        ELSE LET mid == (r[1] + r[2]) \div 2
             IN (G[<<r[1], mid>>] * P[r[2] - mid] + G[<<mid + 1, r[2]>>]) % Q
  IN IF n = 0 THEN 7 ELSE (7 * P[n] + G[<<1, n>>]) % Q

\* ------------------------------------------------------------------ errors
\* A Go error: msg is the chain of context tags, outermost first; ids is the
\* set of sentinel values reachable through Unwrap() (what errors.Is sees).
Nil == [msg |-> <<>>, ids |-> {}]

ErrorsNew(text) == [msg |-> <<text>>, ids |-> {}]

\* fmt.Errorf("<tag>: %w", err)
\* fmt.Errorf with %v: the wrapped error's identity is lost
Errorf_Opaque(tag, err) == [msg |-> <<tag>> \o err.msg, ids |-> {}]

Errorf(tag, err) == [msg |-> <<tag>> \o err.msg, ids |-> err.ids]

ErrorsIs(err, target) == target \in err.ids

\* sentinels
ErrTooEarly == [msg |-> <<"too early to decrypt">>, ids |-> {"ErrTooEarly"}]
ErrIncorrectIdentity ==
  [msg |-> <<"incorrect identity for recipient block">>,
   ids |-> {"ErrIncorrectIdentity"}]

\* ----------------------------------------------------------------- strconv
\* Go strings that are inspected character by character are sequences of
\* one-character strings.
Digits == <<"0", "1", "2", "3", "4", "5", "6", "7", "8", "9">>

DigitOf ==
  "0" :> 0 @@ "1" :> 1 @@ "2" :> 2 @@ "3" :> 3 @@ "4" :> 4 @@
  "5" :> 5 @@ "6" :> 6 @@ "7" :> 7 @@ "8" :> 8 @@ "9" :> 9

IsDigit(c) == c \in DOMAIN DigitOf

DigitVal(c) == DigitOf[c]

RECURSIVE FormatUint(_)
\* strconv.FormatUint(n, 10)
FormatUint(n) ==
  IF n < 10 THEN <<Digits[n + 1]>>
  ELSE FormatUint(n \div 10) \o <<Digits[(n % 10) + 1]>>

\* decimal digits of 1<<64 - 1
MaxUint64Digits ==
  <<"1","8","4","4","6","7","4","4","0","7","3","7","0","9","5","5","1","6","1","5">>

RECURSIVE StripZeros(_)
StripZeros(s) ==
  IF Len(s) > 1 /\ Head(s) = "0" THEN StripZeros(Tail(s)) ELSE s

RECURSIVE DigitsGreater(_, _, _)
\* a > b for digit strings of equal length, compared from position i
DigitsGreater(a, b, i) ==
  IF i > Len(a) THEN FALSE
  ELSE IF DigitVal(a[i]) # DigitVal(b[i]) THEN DigitVal(a[i]) > DigitVal(b[i])
  ELSE DigitsGreater(a, b, i + 1)

RECURSIVE DigitsValue(_, _, _)
DigitsValue(s, i, acc) ==
  IF i > Len(s) THEN acc ELSE DigitsValue(s, i + 1, acc * 10 + DigitVal(s[i]))

ErrSyntax == [msg |-> <<"invalid syntax">>, ids |-> {"ErrSyntax"}]
ErrRange == [msg |-> <<"value out of range">>, ids |-> {"ErrRange"}]

\* strconv.ParseUint(s, 10, 64): no sign, no underscore, leading zeros are
\* accepted, values above 1<<64 - 1 are a range error.  (The value of a string
\* between 1<<31 and 1<<64 - 1 is beyond the checker's integers; the model
\* feeds no such string.)
ParseUint(s) ==
  IF s = <<>> \/ \E i \in 1..Len(s) : ~IsDigit(s[i])
    THEN [val |-> 0, err |-> Errorf("strconv.ParseUint", ErrSyntax)]
  ELSE LET d == StripZeros(s) IN
    IF Len(d) > Len(MaxUint64Digits)
       \/ (Len(d) = Len(MaxUint64Digits) /\ DigitsGreater(d, MaxUint64Digits, 1))
      THEN [val |-> 0, err |-> Errorf("strconv.ParseUint", ErrRange)]
    ELSE [val |-> DigitsValue(d, 1, 0), err |-> Nil]

\* ------------------------------------------------------- crypto libraries
MulQ(a, b) == (a * b) % Q

\* chain.RoundToBytes: 8-byte big-endian encoding of the round
RoundToBytes(r) ==
  Bytes([i \in 1..8 |-> IF i = 8 THEN r % 256
                        ELSE IF i = 7 THEN (r \div 256) % 256
                        ELSE IF i = 6 THEN (r \div 65536) % 256
                        ELSE IF i = 5 THEN (r \div 16777216) % 256
                        ELSE 0], 8)

\* sha256 digest (32 bytes)
Sha256(b) ==
  LET h == Fold(b) IN Bytes([i \in 1..32 |-> (h * i + (h \div 256) + i) % 256], 32)

\* hash of an identity onto G2 (a nonzero scalar)
HashToG2(id) == 1 + (Fold(id) % (Q - 1))

\* H2: Gt -> n bytes
H2(g, n) == Bytes([i \in 1..n |-> (g * i + (g \div 256) + 7 * i) % 256], n)

\* H4: sigma -> n bytes
H4(sigma, n) ==
  LET h == Fold(sigma)
  IN Bytes([i \in 1..n |-> (h * (i + 1) + (h \div 256) + 11 * i) % 256], n)

\* H3: (sigma, msg) -> nonzero scalar
H3(sigma, msg) == 1 + (Fold(sigma \o msg) % (Q - 1))

\* compressed encoding of a point of the given length
MarshalPoint(p, n) ==
  Bytes([i \in 1..n |-> IF i = 1 THEN p \div 256
                        ELSE IF i = 2 THEN p % 256
                        ELSE (p + 3 * i) % 256], n)

\* KyberG1.MarshalBinary
MarshalG1(p) == MarshalPoint(p, kyberPointLen)

ErrPoint == ErrorsNew("invalid point encoding")

UnmarshalPoint(b, n) ==
  IF Len(b) # n THEN [pt |-> 0, err |-> ErrPoint]
  ELSE LET p == b[1] * 256 + b[2] IN
    IF p >= 1 /\ p < Q /\ b = MarshalPoint(p, n)
      THEN [pt |-> p, err |-> Nil]
      ELSE [pt |-> 0, err |-> ErrPoint]

\* KyberG1.UnmarshalBinary
UnmarshalG1(b) == UnmarshalPoint(b, kyberPointLen)

\* KyberG2.UnmarshalBinary
UnmarshalG2(b) == UnmarshalPoint(b, kyberG2Len)

\* ibe.Encrypt(suite, master, ID, msg); sigma is the 16 random bytes drawn
\* inside, rngOk is whether drawing them succeeded.
IbeEncrypt(master, ID, msg, sigma, rngOk) ==
  IF ~rngOk
    THEN [U |-> 0, V |-> <<>>, W |-> <<>>, err |-> ErrorsNew("err reading rand sigma")]
  ELSE LET Qid  == HashToG2(ID)
           r    == H3(sigma, msg)
           rGid == MulQ(MulQ(master, Qid), r)
       IN [U   |-> r,
           V   |-> Mask(sigma, H2(rGid, Len(sigma))),
           W   |-> Mask(msg, H4(sigma, Len(msg))),
           err |-> Nil]

\* ibe.Decrypt(suite, private, ciphertext)
IbeDecrypt(private, U, V, W) ==
  LET gidt  == MulQ(U, private)
      hgidt == H2(gidt, Len(W))
  IN IF Len(hgidt) # Len(V)
       THEN [msg |-> <<>>, err |-> ErrorsNew("XorSigma is of invalid length")]
     ELSE LET sigma == Unmask(V, hgidt)
              msg   == Unmask(W, H4(sigma, Len(W)))
              rh    == H3(sigma, msg)
          IN IF rh # U
               THEN [msg |-> <<>>, err |-> ErrorsNew("invalid proof: rP check failed")]
               ELSE [msg |-> msg, err |-> Nil]

\* VerifyBeacon that checks the signature against the message of the round
\* after b.Round
VerifyBeacon_NextRound(b, pubkey) ==
  LET s == UnmarshalG2(b.Signature) IN
    IF s.err # Nil THEN Errorf("bls", s.err)
    ELSE IF MulQ(pubkey, HashToG2(Sha256(RoundToBytes(b.Round + 1)))) # s.pt
      THEN ErrorsNew("bls: invalid signature")
    ELSE Nil

\* chain.NewVerifier(unchained scheme).VerifyBeacon(b, pubkey): the message is
\* sha256(RoundToBytes(b.Round)); BLS verification e(pk, H(m)) = e(G1, sig).
VerifyBeacon(b, pubkey) ==
  LET s == UnmarshalG2(b.Signature) IN
    IF s.err # Nil THEN Errorf("bls", s.err)
    ELSE IF MulQ(pubkey, HashToG2(Sha256(RoundToBytes(b.Round)))) # s.pt
      THEN ErrorsNew("bls: invalid signature")
    ELSE Nil

\* ----------------------------------------------------------------- network
\* A Network handle names the beacon chain it talks to.
Networks == [chain : Chains]

\* Network.ChainHash()
ChainHash(network) ==
  IF network.chain = "A" THEN <<"7", "6", "7", "2">> ELSE <<"8", "9", "9", "0">>

\* the chain's distributed secret; nobody holds it, the network signs with it
Secret(chain) == IF chain = "A" THEN 1009 ELSE 2003

\* Network.PublicKey(): the G1 point secret*G1
PublicKey(network) == Secret(network.chain)

\* the threshold BLS signature of a round: secret * H(sha256(round)), on G2
RoundSignature(chain, round) ==
  MarshalPoint(MulQ(Secret(chain), HashToG2(Sha256(RoundToBytes(round)))), kyberG2Len)

\* a well-formed G2 point that is no round's signature
ForgedSignature == MarshalPoint(4242, kyberG2Len)

\* Network.IsReadyToDecrypt(round), honest endpoint: (signature, true) once
\* the round is published, (nil, false) before.
HonestAnswer(network, round, published) ==
  IF round \in 1..published[network.chain]
    THEN [id |-> RoundSignature(network.chain, round), ready |-> TRUE]
    ELSE [id |-> <<>>, ready |-> FALSE]

\* Signature bytes an endpoint can hold: those of published rounds of either
\* chain, a forged point, and nothing.
Beacons ==
  { [chain |-> c, round |-> r, signature |-> RoundSignature(c, r)] :
      c \in Chains, r \in Rounds }

KnownSignatures(published) ==
  { b.signature : b \in { x \in Beacons : x.round <= published[x.chain] } }

AnswerIds(published) ==
  KnownSignatures(published) \cup {ForgedSignature, <<>>}

\* Every answer an endpoint (honest, lagging or misbehaving) can give.
Answers(published) == [id : AnswerIds(published), ready : BOOLEAN]

\* ------------------------------------------------------------ tlock_age.go
\* calculateEncryptionID(roundNumber)
calculateEncryptionID(roundNumber) ==
  [id |-> Sha256(RoundToBytes(roundNumber)), err |-> Nil]

\* Wrap with a body buffer that leaves no room for W
Wrap_ShortBody(t, fileKey, sigma, rngOk) ==
  LET id == calculateEncryptionID(t.round) IN
  IF id.err # Nil
    THEN [stanzas |-> <<>>, err |-> Errorf("round by number", id.err)]
  ELSE
  LET cipherText == IbeEncrypt(PublicKey(t.network), id.id, fileKey, sigma, rngOk) IN
  IF cipherText.err # Nil
    THEN [stanzas |-> <<>>, err |-> Errorf("encrypt dek", cipherText.err)]
  ELSE
  LET kyberPoint == MarshalG1(cipherText.U)
      c0 == Make(kyberPointLen + cipherVLen)
      c1 == Copy(c0, kyberPoint)
      c2 == CopyAt(c1, kyberPointLen, cipherText.V)
      c3 == CopyAt(c2, kyberPointLen + cipherVLen, cipherText.W)
      stanza == [Type |-> "tlock",
                 Args |-> <<FormatUint(t.round), ChainHash(t.network)>>,
                 Body |-> c3]
  IN [stanzas |-> <<stanza>>, err |-> Nil]

\* (*tleRecipient).Wrap(fileKey); sigma and rngOk are what ibe.Encrypt draws
Wrap(t, fileKey, sigma, rngOk) ==
  LET id == calculateEncryptionID(t.round) IN
  IF id.err # Nil
    THEN [stanzas |-> <<>>, err |-> Errorf("round by number", id.err)]
  ELSE
  LET cipherText == IbeEncrypt(PublicKey(t.network), id.id, fileKey, sigma, rngOk) IN
  IF cipherText.err # Nil
    THEN [stanzas |-> <<>>, err |-> Errorf("encrypt dek", cipherText.err)]
  ELSE
  LET kyberPoint == MarshalG1(cipherText.U)
      c0 == Make(kyberPointLen + cipherVLen + cipherWLen)
      c1 == Copy(c0, kyberPoint)
      c2 == CopyAt(c1, kyberPointLen, cipherText.V)
      c3 == CopyAt(c2, kyberPointLen + cipherVLen, cipherText.W)
      stanza == [Type |-> "tlock",
                 Args |-> <<FormatUint(t.round), ChainHash(t.network)>>,
                 Body |-> c3]
  IN [stanzas |-> <<stanza>>, err |-> Nil]

NoCipherDEK == [kyberPoint |-> <<>>, cipherV |-> <<>>, cipherW |-> <<>>]

\* parseCipherDEK that only rejects bodies that are too short
parseCipherDEK_AcceptsLonger(stanzaBody) ==
  LET expLen == kyberPointLen + cipherVLen + cipherWLen IN
  IF Len(stanzaBody) < expLen
    THEN [cd |-> NoCipherDEK, err |-> ErrorsNew("incorrect length")]
  ELSE
  LET kyberPoint == Copy(Make(kyberPointLen), Slice(stanzaBody, 0, kyberPointLen))
      cipherV == Copy(Make(cipherVLen),
                      Slice(stanzaBody, kyberPointLen, kyberPointLen + cipherVLen))
      cipherW == Copy(Make(cipherVLen),
                      Slice(stanzaBody, kyberPointLen + cipherVLen, Len(stanzaBody)))
  IN [cd |-> [kyberPoint |-> kyberPoint, cipherV |-> cipherV, cipherW |-> cipherW],
      err |-> Nil]

\* parseCipherDEK(stanzaBody)
parseCipherDEK(stanzaBody) ==
  LET expLen == kyberPointLen + cipherVLen + cipherWLen IN
  IF Len(stanzaBody) # expLen
    THEN [cd |-> NoCipherDEK, err |-> ErrorsNew("incorrect length")]
  ELSE
  LET kyberPoint == Copy(Make(kyberPointLen), Slice(stanzaBody, 0, kyberPointLen))
      cipherV == Copy(Make(cipherVLen),
                      Slice(stanzaBody, kyberPointLen, kyberPointLen + cipherVLen))
      cipherW == Copy(Make(cipherVLen),
                      Slice(stanzaBody, kyberPointLen + cipherVLen, Len(stanzaBody)))
  IN [cd |-> [kyberPoint |-> kyberPoint, cipherV |-> cipherV, cipherW |-> cipherW],
      err |-> Nil]

\* decryptDEK, lines 177-198: with a verified signature id, decode the two
\* points and IBE-decrypt.  ops lists the steps executed.
decryptWithSignature(cipherDEK, id) ==
  LET signature == UnmarshalG2(id) IN
  IF signature.err # Nil
    THEN [fileKey |-> <<>>, err |-> Errorf("unmarshal kyber G2", signature.err),
          ops |-> <<"g2">>]
  ELSE
  LET kyberPoint == UnmarshalG1(cipherDEK.kyberPoint) IN
  IF kyberPoint.err # Nil
    THEN [fileKey |-> <<>>, err |-> Errorf("unmarshal kyber G1", kyberPoint.err),
          ops |-> <<"g2", "g1">>]
  ELSE
  LET plain == IbeDecrypt(signature.pt, kyberPoint.pt, cipherDEK.cipherV, cipherDEK.cipherW) IN
  IF plain.err # Nil
    THEN [fileKey |-> <<>>, err |-> Errorf("decrypt dek", plain.err),
          ops |-> <<"g2", "g1", "ibe">>]
  ELSE [fileKey |-> plain.msg, err |-> Nil, ops |-> <<"g2", "g1", "ibe">>]

\* decryptDEK without the readiness test
decryptDEK_IgnoresReady(cipherDEK, network, roundNumber, answer) ==
  LET b == [Round |-> roundNumber, Signature |-> answer.id]
      verr == VerifyBeacon(b, PublicKey(network))
  IN
  IF verr # Nil
    THEN [fileKey |-> <<>>, err |-> Errorf("verify beacon", verr),
          ops |-> <<"ready", "verify">>]
  ELSE
  LET d == decryptWithSignature(cipherDEK, answer.id) IN
    [fileKey |-> d.fileKey, err |-> d.err, ops |-> <<"ready", "verify">> \o d.ops]

\* decryptDEK without the beacon verification
decryptDEK_SkipsVerify(cipherDEK, network, roundNumber, answer) ==
  IF ~answer.ready
    THEN [fileKey |-> <<>>, err |-> ErrTooEarly, ops |-> <<"ready">>]
  ELSE
  LET d == decryptWithSignature(cipherDEK, answer.id) IN
    [fileKey |-> d.fileKey, err |-> d.err, ops |-> <<"ready">> \o d.ops]

\* decryptDEK that asks the network a second time when the round is not ready
decryptDEK_AsksAgain(cipherDEK, network, roundNumber, answer) ==
  IF ~answer.ready
    THEN [fileKey |-> <<>>, err |-> ErrTooEarly, ops |-> <<"ready", "ready">>]
  ELSE
  LET verr == VerifyBeacon([Round |-> roundNumber, Signature |-> answer.id],
                           PublicKey(network))
  IN
  IF verr # Nil
    THEN [fileKey |-> <<>>, err |-> Errorf("verify beacon", verr),
          ops |-> <<"ready", "verify">>]
  ELSE
  LET d == decryptWithSignature(cipherDEK, answer.id) IN
    [fileKey |-> d.fileKey, err |-> d.err, ops |-> <<"ready", "verify">> \o d.ops]

\* decryptDEK that decodes the G1 point before it asks for the round
decryptDEK_DecodesFirst(cipherDEK, network, roundNumber, answer) ==
  IF UnmarshalG1(cipherDEK.kyberPoint).err # Nil
    THEN [fileKey |-> <<>>,
          err |-> Errorf("unmarshal kyber G1", UnmarshalG1(cipherDEK.kyberPoint).err),
          ops |-> <<"g1">>]
  ELSE IF ~answer.ready
    THEN [fileKey |-> <<>>, err |-> ErrTooEarly, ops |-> <<"ready">>]
  ELSE
  LET verr == VerifyBeacon([Round |-> roundNumber, Signature |-> answer.id],
                           PublicKey(network))
  IN
  IF verr # Nil
    THEN [fileKey |-> <<>>, err |-> Errorf("verify beacon", verr),
          ops |-> <<"ready", "verify">>]
  ELSE
  LET d == decryptWithSignature(cipherDEK, answer.id) IN
    [fileKey |-> d.fileKey, err |-> d.err, ops |-> <<"ready", "verify">> \o d.ops]

\* decryptDEK(cipherDEK, network, roundNumber); answer is what the network
\* returns from IsReadyToDecrypt(roundNumber).  ops lists the steps executed.
decryptDEK(cipherDEK, network, roundNumber, answer) ==
  LET id == answer.id
      ready == answer.ready
  IN
  IF ~ready
    THEN [fileKey |-> <<>>, err |-> ErrTooEarly, ops |-> <<"ready">>]
  ELSE
  LET b == [Round |-> roundNumber, Signature |-> id]
      verr == VerifyBeacon(b, PublicKey(network))
  IN
  IF verr # Nil
    THEN [fileKey |-> <<>>, err |-> Errorf("verify beacon", verr),
          ops |-> <<"ready", "verify">>]
  ELSE
  LET d == decryptWithSignature(cipherDEK, id) IN
    [fileKey |-> d.fileKey, err |-> d.err, ops |-> <<"ready", "verify">> \o d.ops]

\* Unwrap, lines 118-128: parse the body and decrypt the DEK
unwrapBody(t, stanza, blockRound, answer) ==
  LET cipherDEK == parseCipherDEK(stanza.Body) IN
  IF cipherDEK.err # Nil
    THEN [fileKey |-> <<>>, err |-> Errorf("parse cipher dek", cipherDEK.err),
          ops |-> <<"body">>]
  ELSE
  LET d == decryptDEK(cipherDEK.cd, t.network, blockRound, answer) IN
  IF d.err # Nil
    THEN [fileKey |-> <<>>, err |-> Errorf("decrypt dek", d.err),
          ops |-> <<"body">> \o d.ops]
  ELSE [fileKey |-> d.fileKey, err |-> Nil, ops |-> <<"body">> \o d.ops]

\* the checks of lines 95-112 without the stanza type check
checkEnvelope_AnyType(stanzaList) ==
  IF Len(stanzaList) # 1
    THEN [err |-> ErrorsNew("check stanzas length: should be one"), ops |-> <<"len">>]
  ELSE IF Len(stanzaList[1].Args) # 2
    THEN [err |-> Errorf("check stanza args: should be two", ErrIncorrectIdentity),
          ops |-> <<"len", "type", "args">>]
  ELSE IF ParseUint(stanzaList[1].Args[1]).err # Nil
    THEN [err |-> Errorf("parse block round", ParseUint(stanzaList[1].Args[1]).err),
          ops |-> <<"len", "type", "args", "round">>]
  ELSE [err |-> Nil, ops |-> <<"len", "type", "args", "round">>]

\* the checks of lines 95-112 on the first stanza of a list of any length
checkEnvelope_FirstStanza(stanzaList) ==
  IF Len(stanzaList) = 0
    THEN [err |-> ErrorsNew("check stanzas length: should be one"), ops |-> <<"len">>]
  ELSE IF stanzaList[1].Type # "tlock"
    THEN [err |-> Errorf("check stanza type: wrong type", ErrIncorrectIdentity),
          ops |-> <<"len", "type">>]
  ELSE IF Len(stanzaList[1].Args) # 2
    THEN [err |-> Errorf("check stanza args: should be two", ErrIncorrectIdentity),
          ops |-> <<"len", "type", "args">>]
  ELSE IF ParseUint(stanzaList[1].Args[1]).err # Nil
    THEN [err |-> Errorf("parse block round", ParseUint(stanzaList[1].Args[1]).err),
          ops |-> <<"len", "type", "args", "round">>]
  ELSE [err |-> Nil, ops |-> <<"len", "type", "args", "round">>]

\* Unwrap, lines 95-112: the checks on the stanza list before the chain hash
\* is compared; Nil when they all pass
checkEnvelope(stanzaList) ==
  IF Len(stanzaList) # 1
    THEN [err |-> ErrorsNew("check stanzas length: should be one"), ops |-> <<"len">>]
  ELSE IF stanzaList[1].Type # "tlock"
    THEN [err |-> Errorf("check stanza type: wrong type", ErrIncorrectIdentity),
          ops |-> <<"len", "type">>]
  ELSE IF Len(stanzaList[1].Args) # 2
    THEN [err |-> Errorf("check stanza args: should be two", ErrIncorrectIdentity),
          ops |-> <<"len", "type", "args">>]
  ELSE IF ParseUint(stanzaList[1].Args[1]).err # Nil
    THEN [err |-> Errorf("parse block round", ParseUint(stanzaList[1].Args[1]).err),
          ops |-> <<"len", "type", "args", "round">>]
  ELSE [err |-> Nil, ops |-> <<"len", "type", "args", "round">>]

\* Unwrap without the chain-hash comparison
Unwrap_SkipsChainCheck(t, stanzaList, answer) ==
  LET pre == checkEnvelope(stanzaList) IN
  IF pre.err # Nil
    THEN [fileKey |-> <<>>, err |-> pre.err, ops |-> pre.ops]
  ELSE
  LET r == unwrapBody(t, stanzaList[1], ParseUint(stanzaList[1].Args[1]).val, answer) IN
    [fileKey |-> r.fileKey, err |-> r.err, ops |-> pre.ops \o r.ops]

\* Unwrap that parses the body before it compares the chain hash
Unwrap_BodyBeforeChain(t, stanzaList, answer) ==
  LET pre == checkEnvelope(stanzaList) IN
  IF pre.err # Nil
    THEN [fileKey |-> <<>>, err |-> pre.err, ops |-> pre.ops]
  ELSE
  LET stanza == stanzaList[1]
      blockRound == ParseUint(stanza.Args[1]).val
  IN
  IF parseCipherDEK(stanza.Body).err # Nil
    THEN [fileKey |-> <<>>,
          err |-> Errorf("parse cipher dek", parseCipherDEK(stanza.Body).err),
          ops |-> pre.ops \o <<"body">>]
  ELSE IF ChainHash(t.network) # stanza.Args[2]
    THEN [fileKey |-> <<>>, err |-> ErrorsNew("wrong chainhash"),
          ops |-> pre.ops \o <<"body", "chain">>]
  ELSE
  LET r == unwrapBody(t, stanza, blockRound, answer) IN
    [fileKey |-> r.fileKey, err |-> r.err, ops |-> pre.ops \o <<"chain">> \o r.ops]

\* (*tleIdentity).Unwrap(stanzas); answer is what the network would return
\* from IsReadyToDecrypt if asked.
Unwrap(t, stanzaList, answer) ==
  LET pre == checkEnvelope(stanzaList) IN
  IF pre.err # Nil
    THEN [fileKey |-> <<>>, err |-> pre.err, ops |-> pre.ops]
  ELSE
  LET stanza == stanzaList[1]
      blockRound == ParseUint(stanza.Args[1]).val
  IN
  IF ChainHash(t.network) # stanza.Args[2]
    THEN [fileKey |-> <<>>, err |-> ErrorsNew("wrong chainhash"),
          ops |-> pre.ops \o <<"chain">>]
  ELSE
  LET r == unwrapBody(t, stanza, blockRound, answer) IN
    [fileKey |-> r.fileKey, err |-> r.err, ops |-> pre.ops \o <<"chain">> \o r.ops]

\* ------------------------------------------------------------------- state
VARIABLES
  published,  \* published[c]: the last round chain c has published (0: none)
  stanzas,    \* the stanza list in flight between Wrap and Unwrap
  wrapped,    \* what the last successful Wrap wrapped: file key, round, chain
  tampers,    \* rewrites applied to stanzas since that Wrap
  call,       \* the last Wrap or Unwrap call: arguments, network answer, result
  enc,        \* the Encrypt call in progress: its arguments, DEK and position
  cipherData, \* what Encrypt has written: the stanza header, then payload chunks
  dec,        \* the Decrypt call in progress: its network answer, key and position
  plainData,  \* the bytes Decrypt has written to its destination
  heap,       \* the byte arrays a parseCipherDEK call works on, by name
  parse,      \* the parseCipherDEK call in progress: position, slices, result
  attempts,   \* Unwrap attempts of the retrying caller that ended too early
  shared,     \* the recipient, the identity and the Network handle they share
  threads     \* the concurrent Wrap and Unwrap calls: position, locals, result

vars == <<published, stanzas, wrapped, tampers, call, enc, cipherData, dec, plainData,
          heap, parse, attempts, shared, threads>>

\* the variables of the codec, of the retrying caller and of the threads
aux == <<heap, parse, attempts, shared, threads>>

\* the variables of the streaming layer
facade == <<enc, cipherData, dec, plainData>>

\* file keys handed to Wrap: age's 16-byte file key, and keys of other lengths
FileKey16 == Bytes([i \in 1..16 |-> (17 * i) % 256], 16)
FileKey15 == Bytes([i \in 1..15 |-> (5 * i + 1) % 256], 15)
FileKey17 == Bytes([i \in 1..17 |-> (3 * i + 2) % 256], 17)
FileKeys == {FileKey16, FileKey15, FileKey17}

\* values of the 16 random bytes ibe.Encrypt draws
Sigmas == { Bytes([i \in 1..16 |-> (i * i + 1) % 256], 16) }

NoWrapped == [fileKey |-> <<>>, round |-> 0, chain |-> "none"]

NoAnswer == [id |-> <<>>, ready |-> FALSE]

Idle == [op |-> "none", chain |-> "none", round |-> 0, arg |-> <<>>,
         answer |-> NoAnswer, out |-> <<>>, err |-> Nil, ops |-> <<>>]

\* no Encrypt call has been made
NoEnc == [pc |-> "idle", chain |-> "none", round |-> 0, dek |-> <<>>,
          plain |-> <<>>, header |-> <<>>, err |-> Nil]

\* no Decrypt call has been made
NoDec == [pc |-> "idle", chain |-> "none", answer |-> NoAnswer, key |-> <<>>,
          ops |-> <<>>, err |-> Nil, next |-> 0]

\* Chain A is the chain whose rounds are still to come; chain B has already
\* published every round the model speaks of.
InitLayers ==
  /\ published = [c \in Chains |-> IF c = "A" THEN 0 ELSE MaxRound]
  /\ stanzas = <<>>
  /\ wrapped = NoWrapped
  /\ tampers = 0
  /\ call = Idle
  /\ enc = NoEnc
  /\ cipherData = <<>>
  /\ dec = NoDec
  /\ plainData = <<>>

\* no parseCipherDEK call, no retrying caller, no threads
NoParse == [pc |-> "none"]

NoShared == [network |-> [chain |-> "none"]]

InitAux ==
  /\ heap = <<>>
  /\ parse = NoParse
  /\ attempts = 0
  /\ shared = NoShared
  /\ threads = <<>>

Init == InitLayers /\ InitAux

\* the beacon network of chain c publishes its next round
Publish(c) ==
  /\ published[c] < MaxRound
  /\ published' = [published EXCEPT ![c] = @ + 1]
  /\ call' = Idle
  /\ UNCHANGED <<stanzas, wrapped, tampers>>
  /\ UNCHANGED facade
  /\ UNCHANGED aux

Recipients == [round : Rounds, network : Networks]

\* Wrap applied to every input the model draws
WrapCalls ==
  { [t |-> t, fileKey |-> fileKey, res |-> Wrap(t, fileKey, sigma, rngOk)] :
      t \in Recipients, fileKey \in FileKeys, sigma \in Sigmas, rngOk \in BOOLEAN }

\* age.Encrypt calls recipient.Wrap(fileKey) on a recipient for a round of a
\* chain; the list it returns (nil on error) is what is in flight.
DoWrap(w) ==
  /\ call' = [op |-> "Wrap", chain |-> w.t.network.chain, round |-> w.t.round,
              arg |-> w.fileKey, answer |-> NoAnswer, out |-> w.res.stanzas,
              err |-> w.res.err, ops |-> <<>>]
  /\ stanzas' = w.res.stanzas
  /\ wrapped' = IF w.res.err = Nil
                  THEN [fileKey |-> w.fileKey, round |-> w.t.round,
                        chain |-> w.t.network.chain]
                  ELSE NoWrapped
  /\ tampers' = 0
  /\ UNCHANGED published
  /\ UNCHANGED facade
  /\ UNCHANGED aux

\* age.Decrypt calls identity.Unwrap(stanzas) on an identity for chain c; the
\* network gives one of the answers it can give for the round asked.
DoUnwrap(c, answer) ==
  \E res \in {Unwrap([network |-> [chain |-> c]], stanzas, answer)} :
    LET asked == \E i \in 1..Len(res.ops) : res.ops[i] = "ready"
    IN /\ call' = [op |-> "Unwrap", chain |-> c, round |-> 0, arg |-> stanzas,
                   answer |-> IF asked THEN answer ELSE NoAnswer,
                   out |-> res.fileKey, err |-> res.err, ops |-> res.ops]
       /\ UNCHANGED <<published, stanzas, wrapped, tampers>>
       /\ UNCHANGED facade
       /\ UNCHANGED aux

\* ---------------------------------------------------------------- rewrites
\* Between Wrap and Unwrap the stanza travels in a file anyone can edit.
CanTamper == tampers < MaxTamper /\ Len(stanzas) >= 1

Tamper(new) ==
  /\ CanTamper
  /\ new # stanzas
  /\ stanzas' = new
  /\ tampers' = tampers + 1
  /\ call' = Idle
  /\ UNCHANGED <<published, wrapped>>
  /\ UNCHANGED facade
  /\ UNCHANGED aux

\* 1<<64 in decimal
TwoTo64Digits ==
  <<"1","8","4","4","6","7","4","4","0","7","3","7","0","9","5","5","1","6","1","6">>

RoundStrings ==
  { FormatUint(r) : r \in Rounds } \cup
  { <<"x">>, <<"0", "1">>, TwoTo64Digits }

ChainStrings == { ChainHash(n) : n \in Networks } \cup { <<"7", "6", "7">> }

RewriteRound(s) ==
  /\ CanTamper
  /\ Len(stanzas[1].Args) >= 1
  /\ Tamper([stanzas EXCEPT ![1].Args[1] = s])

RewriteChain(h) ==
  /\ CanTamper
  /\ Len(stanzas[1].Args) >= 2
  /\ Tamper([stanzas EXCEPT ![1].Args[2] = h])

DropArg ==
  /\ CanTamper
  /\ Len(stanzas[1].Args) >= 1
  /\ Tamper([stanzas EXCEPT ![1].Args = SubSeq(@, 1, Len(@) - 1)])

AddArg ==
  /\ CanTamper
  /\ Len(stanzas[1].Args) <= 2
  /\ Tamper([stanzas EXCEPT ![1].Args = Append(@, <<"x">>)])

RewriteType ==
  /\ CanTamper
  /\ Tamper([stanzas EXCEPT ![1].Type = "X25519"])

TruncateBody ==
  /\ CanTamper
  /\ Len(stanzas[1].Body) >= kyberPointLen + cipherVLen + cipherWLen
  /\ Tamper([stanzas EXCEPT ![1].Body = SubSeq(@, 1, Len(@) - 1)])

ExtendBody ==
  /\ CanTamper
  /\ Len(stanzas[1].Body) <= kyberPointLen + cipherVLen + cipherWLen
  /\ Tamper([stanzas EXCEPT ![1].Body = Append(@, 0)])

\* one byte of the U region (giving another point, or no point) or of the W
\* region is changed
BodyOffsets == {0, 1, kyberPointLen + cipherVLen}

CorruptBody(off) ==
  /\ CanTamper
  /\ Len(stanzas[1].Body) > off
  /\ Tamper([stanzas EXCEPT ![1].Body[off + 1] = (@ + 1) % 256])

DropStanza ==
  /\ CanTamper
  /\ Tamper(Tail(stanzas))

DuplicateStanza ==
  /\ CanTamper
  /\ Len(stanzas) = 1
  /\ Tamper(stanzas \o stanzas)

Next ==
  \/ \E c \in Chains : Publish(c)
  \/ \E w \in WrapCalls : DoWrap(w)
  \/ \E c \in Chains : \E a \in Answers(published) : DoUnwrap(c, a)
  \/ \E s \in RoundStrings : RewriteRound(s)
  \/ \E h \in ChainStrings : RewriteChain(h)
  \/ DropArg
  \/ AddArg
  \/ RewriteType
  \/ TruncateBody
  \/ ExtendBody
  \/ \E off \in BodyOffsets : CorruptBody(off)
  \/ DropStanza
  \/ DuplicateStanza

Spec == Init /\ [][Next]_vars

\* ------------------------------------------------------ reading a call
Has(ops, step) == \E i \in 1..Len(ops) : ops[i] = step

Pos(ops, step) == CHOOSE i \in 1..Len(ops) : ops[i] = step

IsUnwrap == call.op = "Unwrap"

IsWrap == call.op = "Wrap"

\* the Unwrap call got past the stanza count, type, args and round checks
ParsedRound == ParseUint(call.arg[1].Args[1]).val

EnvelopeRead ==
  /\ IsUnwrap
  /\ Len(call.arg) = 1
  /\ call.arg[1].Type = "tlock"
  /\ Len(call.arg[1].Args) = 2
  /\ ParseUint(call.arg[1].Args[1]).err = Nil

\* the signature the beacon network of the wrapped chain produces for the
\* wrapped round
WrappedSignature == RoundSignature(wrapped.chain, wrapped.round)

\* ------------------------------------------------ Encrypt / Decrypt facade
\* Encrypt and Decrypt stream through the data-encrypter: the stanza header
\* first, then the plaintext in AEAD chunks keyed by the DEK.

\* plaintext bytes per AEAD chunk
ChunkSize == 2

\* plaintexts of no chunk, one full chunk, and a full chunk and a short one
Plaintexts == { <<>>, <<104, 105>>, <<104, 105, 33>> }

\* the DEKs the data-encrypter draws
Deks == { FileKey16, Bytes([i \in 1..16 |-> (29 * i + 3) % 256], 16) }

\* an empty plaintext is written as one empty final chunk
ChunkCount(plain) ==
  IF plain = <<>> THEN 1 ELSE (Len(plain) + ChunkSize - 1) \div ChunkSize

ChunkOf(plain, i) ==
  Slice(plain, (i - 1) * ChunkSize,
        IF i * ChunkSize <= Len(plain) THEN i * ChunkSize ELSE Len(plain))

\* the AEAD of the payload stream: chunk i is masked by a key stream of the
\* key and the chunk index, and tagged over key, index, final flag and data
KeyStream(key, i, n) == Bytes([j \in 1..n |-> (Fold(key) + 7 * i + j) % 256], n)

Tag(key, i, last, chunk) == Fold(key \o <<i, IF last THEN 1 ELSE 0>> \o chunk)

Seal(key, i, last, chunk) ==
  [kind |-> "payload",
   ct |-> Mask(chunk, KeyStream(key, i, Len(chunk))),
   tag |-> Tag(key, i, last, chunk)]

Open(key, i, last, item) ==
  LET chunk == Unmask(item.ct, KeyStream(key, i, Len(item.ct))) IN
  IF Tag(key, i, last, chunk) = item.tag
    THEN [chunk |-> chunk, err |-> Nil]
    ELSE [chunk |-> <<>>, err |-> ErrorsNew("failed to decrypt and authenticate payload chunk")]

HeaderItem(st) == [kind |-> "header", stanzas |-> st]

\* everything a completed Encrypt call writes
Written(e) ==
  <<HeaderItem(e.header)>> \o
  Bytes([i \in 1..ChunkCount(e.plain) |->
           Seal(e.dek, i, i = ChunkCount(e.plain), ChunkOf(e.plain, i))],
        ChunkCount(e.plain))

\* the file is as Encrypt wrote it
Pristine == enc.pc = "done" /\ cipherData = Written(enc)

\* Encrypt(dst, src, round) on a network of either chain, with the DEK and
\* the randomness the data-encrypter and ibe.Encrypt draw
EncryptCalls ==
  { [chain |-> c, round |-> r, dek |-> k, plain |-> p,
     res |-> Wrap([round |-> r, network |-> [chain |-> c]], k, sigma, rngOk)] :
      c \in Chains, r \in Rounds, k \in Deks, p \in Plaintexts,
      sigma \in Sigmas, rngOk \in BOOLEAN }

\* Encrypt, first step: the DEK is generated and wrapped, and the stanza
\* header is written; a failed wrap ends the call with nothing written.
Encrypt(e) ==
  /\ enc.pc \in {"idle", "done", "failed"}
  /\ enc' = IF e.res.err = Nil
              THEN [pc |-> "payload", chain |-> e.chain, round |-> e.round,
                    dek |-> e.dek, plain |-> e.plain, header |-> e.res.stanzas,
                    err |-> Nil]
              ELSE [NoEnc EXCEPT !.pc = "failed", !.err = Errorf("encrypt", e.res.err)]
  /\ cipherData' = IF e.res.err = Nil THEN <<HeaderItem(e.res.stanzas)>> ELSE <<>>
  /\ dec' = NoDec
  /\ plainData' = <<>>
  /\ UNCHANGED <<published, stanzas, wrapped, tampers, call>>
  /\ UNCHANGED aux

\* Encrypt, streaming: the next plaintext chunk is sealed and written
EncryptChunk ==
  /\ enc.pc = "payload"
  /\ cipherData' =
       Append(cipherData,
              Seal(enc.dek, Len(cipherData), Len(cipherData) = ChunkCount(enc.plain),
                   ChunkOf(enc.plain, Len(cipherData))))
  /\ enc' = [enc EXCEPT !.pc = IF Len(cipherData) = ChunkCount(enc.plain)
                                 THEN "done" ELSE "payload"]
  /\ UNCHANGED <<dec, plainData, published, stanzas, wrapped, tampers, call>>
  /\ UNCHANGED aux

\* the edits of a written header: each rewrite of the stanza list above
Headers(st) ==
  { [st EXCEPT ![1].Args[1] = s] : s \in RoundStrings } \cup
  { [st EXCEPT ![1].Args[2] = h] : h \in ChainStrings } \cup
  { [st EXCEPT ![1].Body[off + 1] = (@ + 1) % 256] : off \in BodyOffsets } \cup
  { [st EXCEPT ![1].Args = SubSeq(@, 1, Len(@) - 1)],
    [st EXCEPT ![1].Args = Append(@, <<"x">>)],
    [st EXCEPT ![1].Type = "X25519"],
    [st EXCEPT ![1].Body = SubSeq(@, 1, Len(@) - 1)],
    [st EXCEPT ![1].Body = Append(@, 0)],
    Tail(st),
    st \o st }

\* the header of the written file is edited, once, before it is decrypted
RewriteHeader ==
  /\ Pristine
  /\ \E new \in Headers(enc.header) \ {enc.header} :
       cipherData' = [cipherData EXCEPT ![1] = HeaderItem(new)]
  /\ dec' = NoDec
  /\ plainData' = <<>>
  /\ UNCHANGED <<enc, published, stanzas, wrapped, tampers, call>>
  /\ UNCHANGED aux

\* the first payload chunk of the written file is damaged
CorruptPayload ==
  /\ Pristine
  /\ cipherData' = [cipherData EXCEPT ![2].tag = (@ + 1) % Q]
  /\ dec' = NoDec
  /\ plainData' = <<>>
  /\ UNCHANGED <<enc, published, stanzas, wrapped, tampers, call>>
  /\ UNCHANGED aux

\* the error Decrypt returns for a failed Unwrap: an identity that reports
\* the incorrect-identity sentinel is skipped and no identity is left
DecryptError(err) ==
  IF ErrorsIs(err, "ErrIncorrectIdentity")
    THEN Errorf("age decrypt", ErrorsNew("no identity matched any of the recipients"))
    ELSE Errorf("age decrypt", err)

\* Decrypt(dst, src) on a network of chain c, first step: the stanza header
\* is read and handed to Unwrap, the network answering as it can; a failed
\* Unwrap ends the call.  dst starts empty.
Decrypt(c, answer) ==
  /\ enc.pc = "done"
  /\ dec.pc \in {"idle", "done", "failed"}
  /\ \E res \in {Unwrap([network |-> [chain |-> c]], cipherData[1].stanzas, answer)} :
       dec' = [pc |-> IF res.err = Nil THEN "payload" ELSE "failed",
               chain |-> c,
               answer |-> IF Has(res.ops, "ready") THEN answer ELSE NoAnswer,
               key |-> res.fileKey,
               ops |-> res.ops,
               err |-> IF res.err = Nil THEN Nil ELSE DecryptError(res.err),
               next |-> 1]
  /\ plainData' = <<>>
  /\ UNCHANGED <<enc, cipherData, published, stanzas, wrapped, tampers, call>>
  /\ UNCHANGED aux

\* Decrypt, streaming: the next payload chunk is opened with the unwrapped
\* key and its plaintext written to dst
DecryptChunk ==
  /\ dec.pc = "payload"
  /\ \E o \in {Open(dec.key, dec.next, dec.next = Len(cipherData) - 1,
                    cipherData[dec.next + 1])} :
       IF o.err # Nil
         THEN /\ dec' = [dec EXCEPT !.pc = "failed", !.ops = Append(@, "open"),
                                    !.err = Errorf("age decrypt", o.err)]
              /\ UNCHANGED plainData
         ELSE /\ dec' = [dec EXCEPT !.next = @ + 1,
                                    !.ops = Append(@, "open"),
                                    !.pc = IF dec.next = Len(cipherData) - 1
                                             THEN "done" ELSE "payload"]
              /\ plainData' = plainData \o o.chunk
  /\ UNCHANGED <<enc, cipherData, published, stanzas, wrapped, tampers, call>>
  /\ UNCHANGED aux

NextF ==
  \/ \E c \in Chains : Publish(c)
  \/ \E e \in EncryptCalls : Encrypt(e)
  \/ EncryptChunk
  \/ RewriteHeader
  \/ CorruptPayload
  \/ \E c \in Chains : \E a \in Answers(published) : Decrypt(c, a)
  \/ DecryptChunk

SpecFacade == Init /\ [][NextF]_vars

\* ------------------------------------------------ parseCipherDEK on a heap
\* parseCipherDEK line by line, on named byte arrays, so that which array a
\* returned field views is part of the state.

\* a slice: the array it views and the range [lo, hi) of it
SliceOf(arr, lo, hi) == [arr |-> arr, lo |-> lo, hi |-> hi]

NoSlice == SliceOf("none", 0, 0)

\* the bytes a slice views
Read(h, sl) == Slice(h[sl.arr], sl.lo, sl.hi)

\* Go's copy(dst, src) through two slices: as many bytes as both hold
CopySlice(h, dst, src) ==
  LET n == IF dst.hi - dst.lo <= src.hi - src.lo THEN dst.hi - dst.lo
           ELSE src.hi - src.lo
  IN [h EXCEPT ![dst.arr] = CopyAt(@, dst.lo, Slice(Read(h, src), 0, n))]

\* the fields of cipherDEK, in the order parseCipherDEK fills them
Fields == <<"kyberPoint", "cipherV", "cipherW">>

\* the length each field is made with, lines 139, 142 and 145 (cipherW is
\* made with cipherVLen)
FieldLen(f) ==
  CASE f = "kyberPoint" -> kyberPointLen
    [] f = "cipherV" -> cipherVLen
    [] f = "cipherW" -> cipherVLen

\* the part of stanzaBody copied into each field, lines 140, 143 and 146
FieldSource(h, f) ==
  CASE f = "kyberPoint" -> SliceOf("stanzaBody", 0, kyberPointLen)
    [] f = "cipherV" -> SliceOf("stanzaBody", kyberPointLen, kyberPointLen + cipherVLen)
    [] f = "cipherW" -> SliceOf("stanzaBody", kyberPointLen + cipherVLen,
                                Len(h["stanzaBody"]))

\* a field that is a reslice of stanzaBody instead of a new array
makeField_Reslice(h, f) == FieldSource(h, f)

\* make([]byte, n) for field f: a slice over a new array
makeField(h, f) == SliceOf(f, 0, FieldLen(f))

\* the heap once the array of a slice exists, zeroed when new
Alloc(h, sl) == IF sl.arr \in DOMAIN h THEN h ELSE (sl.arr :> Zeros(sl.hi)) @@ h

NoTriple == [kyberPoint |-> <<>>, cipherV |-> <<>>, cipherW |-> <<>>]

\* bodies that Wrap built, with the triple they were built from
BuiltBodies ==
  { [body |-> Wrap(t, fileKey, sigma, TRUE).stanzas[1].Body,
     triple |->
       LET ct == IbeEncrypt(PublicKey(t.network), calculateEncryptionID(t.round).id,
                            fileKey, sigma, TRUE)
       IN [kyberPoint |-> MarshalG1(ct.U), cipherV |-> ct.V, cipherW |-> ct.W]] :
      t \in Recipients, fileKey \in FileKeys, sigma \in Sigmas }

\* other bodies: of 80 bytes that no Wrap built, and of 79 and 81 bytes
RawBodies ==
  { Bytes([i \in 1..80 |-> i], 80), Zeros(80),
    Bytes([i \in 1..79 |-> 255 - i], 79), Bytes([i \in 1..81 |-> (7 * i) % 256], 81) }

CodecInputs == BuiltBodies \cup { [body |-> b, triple |-> NoTriple] : b \in RawBodies }

InitCodec ==
  /\ InitLayers
  /\ attempts = 0
  /\ shared = NoShared
  /\ threads = <<>>
  /\ \E x \in CodecInputs :
       /\ heap = [a \in {"stanzaBody"} |-> x.body]
       /\ parse = [pc |-> "start", body |-> x.body, triple |-> x.triple,
                   cd |-> [f \in {"kyberPoint", "cipherV", "cipherW"} |-> NoSlice],
                   next |-> 1, err |-> Nil]

\* lines 134-137: the length check
CheckLength ==
  /\ parse.pc = "start"
  /\ parse' = IF Len(heap["stanzaBody"]) # kyberPointLen + cipherVLen + cipherWLen
                THEN [parse EXCEPT !.pc = "failed", !.err = ErrorsNew("incorrect length")]
                ELSE [parse EXCEPT !.pc = "fields"]
  /\ UNCHANGED <<heap, attempts, shared, threads>>
  /\ UNCHANGED <<published, stanzas, wrapped, tampers, call, facade>>

\* lines 139-146, one field at a time: make the field, copy its part of
\* stanzaBody into it; after the last field the cipherDEK is returned
ParseField ==
  /\ parse.pc = "fields"
  /\ \E sl \in {makeField(heap, Fields[parse.next])} :
       /\ heap' = CopySlice(Alloc(heap, sl), sl, FieldSource(heap, Fields[parse.next]))
       /\ parse' = [parse EXCEPT !.cd[Fields[parse.next]] = sl,
                                 !.next = @ + 1,
                                 !.pc = IF parse.next = Len(Fields) THEN "done" ELSE "fields"]
  /\ UNCHANGED <<attempts, shared, threads>>
  /\ UNCHANGED <<published, stanzas, wrapped, tampers, call, facade>>

\* the caller of parseCipherDEK writes a byte through a returned field
CallerWrites(f, i) ==
  /\ parse.pc = "done"
  /\ i < parse.cd[f].hi - parse.cd[f].lo
  /\ heap' = [heap EXCEPT ![parse.cd[f].arr][parse.cd[f].lo + i + 1] = (@ + 1) % 256]
  /\ parse' = [parse EXCEPT !.pc = "written"]
  /\ UNCHANGED <<attempts, shared, threads>>
  /\ UNCHANGED <<published, stanzas, wrapped, tampers, call, facade>>

NextCodec ==
  \/ CheckLength
  \/ ParseField
  \/ \E f \in {"kyberPoint", "cipherV", "cipherW"} : \E i \in {0, 15} : CallerWrites(f, i)

SpecCodec == InitCodec /\ [][NextCodec]_vars

\* -------------------------------------------------------- retrying caller
\* A caller wraps one file key and retries Unwrap of the stanza against the
\* honest network of its chain, which publishes its rounds one by one.

\* too-early failures counted
MaxRetry == 2

WrapOnce(w) ==
  /\ wrapped = NoWrapped
  /\ DoWrap(w)

\* the answer of the honest network for a round, before and after the round
\* is published
HonestAnswerWhen(network, round, isPublished) ==
  IF isPublished
    THEN [id |-> RoundSignature(network.chain, round), ready |-> TRUE]
    ELSE [id |-> <<>>, ready |-> FALSE]

\* Unwrap applied to every stanza list a Wrap returned, on the chain it was
\* wrapped for, with either honest answer for its round
RetryCalls ==
  { [stanzas |-> Wrap(t, fileKey, sigma, TRUE).stanzas,
     chain |-> t.network.chain, round |-> t.round,
     answer |-> HonestAnswerWhen(t.network, t.round, isPublished),
     res |-> Unwrap([network |-> t.network], Wrap(t, fileKey, sigma, TRUE).stanzas,
                    HonestAnswerWhen(t.network, t.round, isPublished))] :
      t \in Recipients, fileKey \in FileKeys, sigma \in Sigmas,
      isPublished \in BOOLEAN }

\* one Unwrap attempt; the network answers ready, with the signature, exactly
\* when the wrapped round is published
Retry ==
  /\ wrapped # NoWrapped
  /\ \E r \in RetryCalls :
       /\ r.stanzas = stanzas
       /\ r.chain = wrapped.chain
       /\ r.round = wrapped.round
       /\ r.answer.ready <=> (wrapped.round <= published[wrapped.chain])
       /\ r.answer.ready \/ attempts < MaxRetry
       /\ call' = [op |-> "Unwrap", chain |-> wrapped.chain, round |-> 0,
                   arg |-> stanzas,
                   answer |-> IF Has(r.res.ops, "ready") THEN r.answer ELSE NoAnswer,
                   out |-> r.res.fileKey, err |-> r.res.err, ops |-> r.res.ops]
       /\ attempts' = IF ErrorsIs(r.res.err, "ErrTooEarly") THEN attempts + 1
                      ELSE attempts
  /\ UNCHANGED <<published, stanzas, wrapped, tampers>>
  /\ UNCHANGED <<heap, parse, shared, threads>>
  /\ UNCHANGED facade

NextRetry ==
  \/ \E w \in WrapCalls : WrapOnce(w)
  \/ \E c \in Chains : Publish(c)
  \/ Retry

\* the network goes on publishing and the caller goes on retrying
SpecRetry ==
  /\ Init
  /\ [][NextRetry]_vars
  /\ \A c \in Chains : WF_vars(Publish(c))
  /\ WF_vars(Retry)

\* ------------------------------------------------------- concurrent callers
\* Two goroutines call Wrap and Unwrap on one recipient and one identity that
\* hold the same Network handle.  shared is what they have in common: the
\* recipient's round and the Network handle both network fields point at.
\* A call runs in steps, one per read of a shared field; the scheduler may
\* switch goroutines between any two steps.

ThreadIds == {1, 2}

NoResult == [stanzas |-> <<>>, fileKey |-> <<>>, err |-> Nil, ops |-> <<>>]

NoCipherText == [U |-> 0, V |-> <<>>, W |-> <<>>, err |-> Nil]

\* a goroutine: the call it makes (op, arg, rngOk), where it stands (pc), its
\* locals (sigma, id, cipherText, blockRound, answer), what the call returned (res),
\* and whether the other goroutine was inside a call at one of its steps
NoThread ==
  [op |-> "none", pc |-> "idle", arg |-> <<>>, rngOk |-> TRUE,
   sigma |-> <<>>, id |-> <<>>, cipherText |-> NoCipherText, blockRound |-> 0,
   answer |-> NoAnswer, res |-> NoResult, overlapped |-> FALSE]

\* the stanza lists handed to the concurrent Unwrap calls: what Wrap returned
\* for a 16-byte file key on every recipient, and the empty list
ConcStanzas ==
  { w.res.stanzas : w \in { x \in WrapCalls : x.fileKey = FileKey16 } }

\* the recipient and the identity as a step finds them
RecipientOf(sh) == [round |-> sh.round, network |-> sh.network]

IdentityOf(sh) == [network |-> sh.network]

\* a step that stores the next round into the recipient when Wrap returns
SharedAfter_AdvancesRound(sh, pc) ==
  IF pc = "stanza" /\ sh.round < MaxRound THEN [sh EXCEPT !.round = sh.round + 1]
  ELSE sh

\* the shared fields after a step of Wrap or Unwrap: lines 43-71 and 94-199
\* assign to locals and to freshly made slices only, never to t.round,
\* t.network, the Network handle or a package-level variable
SharedAfter(sh, pc) == sh

\* what the concurrent callers leave alone
others ==
  <<published, stanzas, wrapped, tampers, call, enc, cipherData, dec, plainData,
    heap, parse, attempts>>

InCall(th) == th.pc \notin {"idle", "done"}

\* bookkeeping of a step of goroutine i that leaves it as th
Stepped(i, th) ==
  [threads EXCEPT ![i] =
     [th EXCEPT !.overlapped = @ \/ \E j \in ThreadIds \ {i} : InCall(threads[j])]]

InitConc ==
  /\ InitLayers
  /\ heap = <<>>
  /\ parse = NoParse
  /\ attempts = 0
  /\ \E t \in Recipients : shared = [round |-> t.round, network |-> t.network]
  /\ threads = [i \in ThreadIds |-> NoThread]

\* goroutine i calls recipient.Wrap(fileKey)
CallWrap(i) ==
  /\ threads[i].pc = "idle"
  /\ \E fileKey \in FileKeys, rngOk \in BOOLEAN :
       threads' = Stepped(i, [NoThread EXCEPT !.op = "Wrap", !.pc = "id",
                                              !.arg = fileKey, !.rngOk = rngOk])
  /\ UNCHANGED shared
  /\ UNCHANGED others

\* lines 44-47: id from t.round
WrapID(i) ==
  /\ threads[i].op = "Wrap" /\ threads[i].pc = "id"
  /\ \E id \in {calculateEncryptionID(RecipientOf(shared).round)} :
       threads' = Stepped(i,
         IF id.err # Nil
           THEN [threads[i] EXCEPT !.pc = "done",
                   !.res = [NoResult EXCEPT !.err = Errorf("round by number", id.err)]]
           ELSE [threads[i] EXCEPT !.pc = "encrypt", !.id = id.id])
  /\ shared' = SharedAfter(shared, "id")
  /\ UNCHANGED others

\* lines 49-52: ibe.Encrypt under t.network's public key
WrapEncrypt(i) ==
  /\ threads[i].op = "Wrap" /\ threads[i].pc = "encrypt"
  /\ \E sigma \in Sigmas :
     \E cipherText \in {IbeEncrypt(PublicKey(RecipientOf(shared).network), threads[i].id,
                                   threads[i].arg, sigma, threads[i].rngOk)} :
       threads' = Stepped(i,
         IF cipherText.err # Nil
           THEN [threads[i] EXCEPT !.pc = "done", !.sigma = sigma,
                   !.res = [NoResult EXCEPT !.err = Errorf("encrypt dek", cipherText.err)]]
           ELSE [threads[i] EXCEPT !.pc = "stanza", !.sigma = sigma,
                                   !.cipherText = cipherText])
  /\ shared' = SharedAfter(shared, "encrypt")
  /\ UNCHANGED others

\* lines 54-70: the body from the ciphertext, the args from t.round and
\* t.network.ChainHash()
WrapStanza(i) ==
  /\ threads[i].op = "Wrap" /\ threads[i].pc = "stanza"
  /\ \E body \in {CopyAt(CopyAt(Copy(Make(kyberPointLen + cipherVLen + cipherWLen),
                                     MarshalG1(threads[i].cipherText.U)),
                                kyberPointLen, threads[i].cipherText.V),
                         kyberPointLen + cipherVLen, threads[i].cipherText.W)} :
       threads' = Stepped(i,
         [threads[i] EXCEPT !.pc = "done",
            !.res = [NoResult EXCEPT !.stanzas =
                       << [Type |-> "tlock",
                           Args |-> <<FormatUint(RecipientOf(shared).round),
                                      ChainHash(RecipientOf(shared).network)>>,
                           Body |-> body] >>]])
  /\ shared' = SharedAfter(shared, "stanza")
  /\ UNCHANGED others

\* goroutine i calls identity.Unwrap(stanzas)
CallUnwrap(i) ==
  /\ threads[i].pc = "idle"
  /\ \E stanzaList \in ConcStanzas \cup {<<>>} :
       threads' = Stepped(i, [NoThread EXCEPT !.op = "Unwrap", !.pc = "checks",
                                              !.arg = stanzaList])
  /\ UNCHANGED shared
  /\ UNCHANGED others

\* lines 95-121: the checks made before the network is asked, the chain hash
\* read from t.network among them; a failure ends the call
UnwrapChecks(i) ==
  /\ threads[i].op = "Unwrap" /\ threads[i].pc = "checks"
  /\ \E pre \in {Unwrap(IdentityOf(shared), threads[i].arg, NoAnswer)} :
       threads' = Stepped(i,
         IF Has(pre.ops, "ready")
           THEN [threads[i] EXCEPT !.pc = "ask",
                   !.blockRound = ParseUint(threads[i].arg[1].Args[1]).val,
                   !.res = [NoResult EXCEPT !.ops = SubSeq(pre.ops, 1, Len(pre.ops) - 1)]]
           ELSE [threads[i] EXCEPT !.pc = "done",
                   !.res = [NoResult EXCEPT !.err = pre.err, !.ops = pre.ops]])
  /\ shared' = SharedAfter(shared, "checks")
  /\ UNCHANGED others

\* line 160: t.network.IsReadyToDecrypt(blockRound); the network of the
\* handle answers as before or as after the round's publication
UnwrapAsk(i) ==
  /\ threads[i].op = "Unwrap" /\ threads[i].pc = "ask"
  /\ \E isPublished \in BOOLEAN :
       threads' = Stepped(i,
         [threads[i] EXCEPT !.pc = "decrypt",
            !.answer = HonestAnswerWhen(IdentityOf(shared).network,
                                        threads[i].blockRound, isPublished)])
  /\ shared' = SharedAfter(shared, "ask")
  /\ UNCHANGED others

\* lines 161-198 and 123-128: the rest of decryptDEK on the answer, verifying
\* under t.network's public key, and the return of Unwrap
UnwrapDecrypt(i) ==
  /\ threads[i].op = "Unwrap" /\ threads[i].pc = "decrypt"
  /\ \E d \in {decryptDEK(parseCipherDEK(threads[i].arg[1].Body).cd,
                          IdentityOf(shared).network, threads[i].blockRound,
                          threads[i].answer)} :
       threads' = Stepped(i,
         [threads[i] EXCEPT !.pc = "done",
            !.res = [NoResult EXCEPT
                       !.fileKey = IF d.err # Nil THEN <<>> ELSE d.fileKey,
                       !.err = IF d.err # Nil THEN Errorf("decrypt dek", d.err) ELSE Nil,
                       !.ops = threads[i].res.ops \o d.ops]])
  /\ shared' = SharedAfter(shared, "decrypt")
  /\ UNCHANGED others

NextConc ==
  \/ \E i \in ThreadIds : CallWrap(i)
  \/ \E i \in ThreadIds : WrapID(i)
  \/ \E i \in ThreadIds : WrapEncrypt(i)
  \/ \E i \in ThreadIds : WrapStanza(i)
  \/ \E i \in ThreadIds : CallUnwrap(i)
  \/ \E i \in ThreadIds : UnwrapChecks(i)
  \/ \E i \in ThreadIds : UnwrapAsk(i)
  \/ \E i \in ThreadIds : UnwrapDecrypt(i)

SpecConc == InitConc /\ [][NextConc]_vars

\* ----------------------------------------------------------------- claims
\* C1: timelock safety.  Whatever was done to the stanza list since Wrap
\* (its round or chain rewritten, its body edited), an Unwrap call returns
\* the wrapped file key only if the wrapped round is published on the wrapped
\* chain, the network answered ready with that round's signature, and the
\* signature verifies as a beacon of the wrapped round.
C1_TimelockSafety ==
  (IsUnwrap /\ wrapped # NoWrapped /\ call.err = Nil /\ call.out = wrapped.fileKey)
    => /\ wrapped.round <= published[wrapped.chain]
       /\ call.answer = [id |-> WrappedSignature, ready |-> TRUE]
       /\ Pos(call.ops, "verify") < Pos(call.ops, "ibe")
       /\ VerifyBeacon([Round |-> wrapped.round, Signature |-> call.answer.id],
                       PublicKey([chain |-> wrapped.chain])) = Nil

\* C1 witness: Unwrap returned the wrapped file key.
C1_Witness ==
  IsUnwrap /\ wrapped # NoWrapped /\ call.err = Nil /\ call.out = wrapped.fileKey

\* The rebinding attack is attempted: the wrapped round is unpublished, the
\* stanza's round is rewritten to a published one, the network answers ready
\* with that round's valid signature, and IBE decryption is reached.
C1_RebindingAttempted ==
  /\ EnvelopeRead
  /\ wrapped # NoWrapped
  /\ wrapped.round > published[wrapped.chain]
  /\ ParsedRound # wrapped.round
  /\ ParsedRound \in 1..published[call.chain]
  /\ Has(call.ops, "ibe")

\* the Unwrap call ended at the chain-hash check
WrongChainCase ==
  /\ EnvelopeRead
  /\ call.arg[1].Args[2] # ChainHash([chain |-> call.chain])

\* C4: chain-hash enforcement.  A tlock stanza with two args and a parsable
\* round whose args[1] differs from the identity's chain hash makes Unwrap
\* fail with "wrong chainhash", whatever the body and the published rounds,
\* and the network is not asked.
C4_ChainHashEnforced ==
  WrongChainCase
    => /\ call.err = ErrorsNew("wrong chainhash")
       /\ call.out = <<>>
       /\ ~Has(call.ops, "ready")
       /\ call.answer = NoAnswer

\* C4 witness: the chain hash is wrong while the body is not 80 bytes, and
\* the identity's chain has published the stanza's round.
C4_Witness ==
  /\ WrongChainCase
  /\ Len(call.arg[1].Body) # 80
  /\ ParsedRound \in 1..published[call.chain]

\* the signature the network returned verifies as a beacon of the round the
\* Unwrap call parsed, under the public key of the identity's chain
AnswerVerifies ==
  VerifyBeacon([Round |-> ParsedRound, Signature |-> call.answer.id],
               PublicKey([chain |-> call.chain])) = Nil

\* C5: beacon verification precedes IBE decryption.  IBE decryption is
\* reached only after the verify step, and only with the genuine signature of
\* the parsed round; a ready answer whose signature does not verify ends
\* Unwrap with "decrypt dek: verify beacon", without IBE decryption and
\* without a file key.
C5_VerifyBeforeIbe ==
  /\ (IsUnwrap /\ Has(call.ops, "ibe"))
       => /\ Has(call.ops, "verify")
          /\ Pos(call.ops, "verify") < Pos(call.ops, "ibe")
          /\ AnswerVerifies
          /\ call.answer.id = RoundSignature(call.chain, ParsedRound)
  /\ (IsUnwrap /\ Has(call.ops, "ready") /\ call.answer.ready /\ ~AnswerVerifies)
       => /\ Len(call.err.msg) >= 2
          /\ SubSeq(call.err.msg, 1, 2) = <<"decrypt dek", "verify beacon">>
          /\ ~Has(call.ops, "ibe")
          /\ call.out = <<>>

\* C5 witness: the network answered ready with a well-formed G2 point that is
\* not the round's signature.
C5_Witness ==
  /\ IsUnwrap
  /\ Has(call.ops, "ready")
  /\ call.answer.ready
  /\ UnmarshalG2(call.answer.id).err = Nil
  /\ ~AnswerVerifies

\* C6: envelope stability.  A successful Wrap returns one stanza of type
\* "tlock" with exactly two args, the round in decimal without leading zeros
\* and the network's chain hash, and a body of 80 bytes.
C6_EnvelopeStable ==
  (IsWrap /\ call.err = Nil)
    => /\ Len(call.out) = 1
       /\ call.out[1].Type = "tlock"
       /\ Len(call.out[1].Args) = 2
       /\ ParseUint(call.out[1].Args[1]) = [val |-> call.round, err |-> Nil]
       /\ StripZeros(call.out[1].Args[1]) = call.out[1].Args[1]
       /\ call.out[1].Args[2] = ChainHash([chain |-> call.chain])
       /\ Len(call.out[1].Body) = 80

\* C6 witness: a Wrap succeeded.
C6_Witness == IsWrap /\ call.err = Nil /\ call.round = MaxRound

\* the Unwrap call reached the body parse
BodyParsed == IsUnwrap /\ Has(call.ops, "body")

\* C7: body-length rejection.  The body parses if and only if it is 80 bytes
\* long; otherwise Unwrap fails with "parse cipher dek" and neither the
\* network nor any cryptographic step is reached.
C7_BodyLengthRejected ==
  BodyParsed
    => /\ (parseCipherDEK(call.arg[1].Body).err = Nil) <=> (Len(call.arg[1].Body) = 80)
       /\ (Len(call.arg[1].Body) = 80) <=> Has(call.ops, "ready")
       /\ (Len(call.arg[1].Body) # 80)
            => /\ call.err.msg[1] = "parse cipher dek"
               /\ call.ops[Len(call.ops)] = "body"
               /\ call.answer = NoAnswer
               /\ call.out = <<>>

\* C7 witness: a body of 81 bytes reached the body parse.
C7_Witness == BodyParsed /\ Len(call.arg[1].Body) = 81

\* C7, the other side: a body of 79 bytes reached the body parse.
C7_ShortBody == BodyParsed /\ Len(call.arg[1].Body) = 79

\* C8: error-kind separation.  Unwrap of a single stanza reports the
\* incorrect-identity sentinel exactly when the stanza type is not "tlock".
C8_WrongIdentityOnlyForType ==
  (IsUnwrap /\ Len(call.arg) = 1)
    => (ErrorsIs(call.err, "ErrIncorrectIdentity") <=> call.arg[1].Type # "tlock")

\* C9: serialization enforces field lengths.  Wrap of a file key that is not
\* 16 bytes long returns an error.
C9_WrapRejectsBadLength ==
  (IsWrap /\ Len(call.arg) # 16) => call.err # Nil

\* the header Decrypt read
Header == cipherData[1].stanzas

\* Decrypt has handed the header to Unwrap
Decrypting == enc.pc = "done" /\ dec.pc # "idle"

\* the network was asked for the round
Asked == Has(dec.ops, "ready")

\* C2: round trip.  When the file is as Encrypt wrote it, the decrypter is on
\* the chain of the encrypter and the network answers that the round is ready
\* with the round's signature, Decrypt does not fail, Unwrap returns the DEK
\* that Wrap wrapped, the bytes written so far are a prefix of the plaintext,
\* and a completed Decrypt has written exactly the plaintext.
C2_RoundTrip ==
  (/\ Pristine
   /\ dec.pc # "idle"
   /\ dec.chain = enc.chain
   /\ dec.answer = HonestAnswer([chain |-> enc.chain], enc.round, published)
   /\ dec.answer.ready)
    => /\ dec.pc \in {"payload", "done"}
       /\ dec.err = Nil
       /\ dec.key = enc.dek
       /\ Len(plainData) <= Len(enc.plain)
       /\ plainData = SubSeq(enc.plain, 1, Len(plainData))
       /\ (dec.pc = "done") => (plainData = enc.plain)

\* C2 witness: a plaintext of two chunks encrypted to a round of chain A came
\* back whole.
C2_Witness ==
  /\ Pristine
  /\ dec.pc = "done"
  /\ enc.chain = "A"
  /\ dec.chain = "A"
  /\ Len(enc.plain) > ChunkSize
  /\ plainData = enc.plain
  /\ dec.key = enc.dek

\* C3: early-decryption sentinel.  Whenever the network answers that the
\* round is not ready, Decrypt fails, its error is ErrTooEarly under the
\* "decrypt dek" context and every layer above, and nothing is written; and
\* for a file as Encrypt wrote it, read on the encrypter's chain while the
\* round is unpublished, the honest network is asked and gives that answer.
C3_TooEarlySentinel ==
  /\ (Decrypting /\ Asked /\ ~dec.answer.ready)
       => /\ dec.pc = "failed"
          /\ ErrorsIs(dec.err, "ErrTooEarly")
          /\ Has(dec.err.msg, "decrypt dek")
          /\ dec.err.msg[Len(dec.err.msg)] = "too early to decrypt"
          /\ dec.key = <<>>
          /\ plainData = <<>>
  /\ (/\ Pristine
      /\ dec.pc # "idle"
      /\ dec.chain = enc.chain
      /\ enc.round > published[enc.chain]
      /\ dec.answer = HonestAnswer([chain |-> enc.chain], enc.round, published))
       => /\ Asked
          /\ ~dec.answer.ready

\* C3 witness: Decrypt of an untouched file whose round is still unpublished
\* on its chain failed with the sentinel.
C3_Witness ==
  /\ Pristine
  /\ dec.pc = "failed"
  /\ dec.chain = enc.chain
  /\ enc.round > published[enc.chain]
  /\ Asked
  /\ ~dec.answer.ready
  /\ ErrorsIs(dec.err, "ErrTooEarly")

\* the reasons for which Unwrap of the header must fail, read off the header
\* and the network's answer
WrongStanzaCount == Len(Header) # 1

WrongType == Len(Header) = 1 /\ Header[1].Type # "tlock"

WrongArgs ==
  /\ Len(Header) = 1
  /\ \/ Len(Header[1].Args) # 2
     \/ ParseUint(Header[1].Args[1]).err # Nil

WrongChainHash ==
  /\ Len(Header) = 1
  /\ Len(Header[1].Args) = 2
  /\ Header[1].Args[2] # ChainHash([chain |-> dec.chain])

BadBody == Len(Header) = 1 /\ Len(Header[1].Body) # 80

TooEarly == Asked /\ ~dec.answer.ready

InvalidBeacon ==
  /\ Asked
  /\ dec.answer.ready
  /\ VerifyBeacon([Round |-> ParseUint(Header[1].Args[1]).val,
                   Signature |-> dec.answer.id],
                  PublicKey([chain |-> dec.chain])) # Nil

\* C10: header before payload.  In what Encrypt writes the stanza header is
\* the first item and every payload chunk comes after it; Decrypt opens a
\* payload chunk only after Unwrap has finished with a key; and when the
\* header has a wrong stanza count, type, args or chain hash, a bad body, or
\* the network answers too early or with an invalid beacon, Decrypt fails
\* without opening a chunk and without writing a byte.
C10_HeaderBeforePayload ==
  /\ \A i \in 1..Len(cipherData) : (cipherData[i].kind = "header") <=> (i = 1)
  /\ \A i \in 1..Len(dec.ops) :
       dec.ops[i] = "open"
         => /\ Has(dec.ops, "ibe")
            /\ Pos(dec.ops, "ibe") < i
            /\ dec.key # <<>>
  /\ (plainData # <<>>) => Has(dec.ops, "open")
  /\ (/\ Decrypting
      /\ \/ WrongStanzaCount
         \/ WrongType
         \/ WrongArgs
         \/ WrongChainHash
         \/ BadBody
         \/ TooEarly
         \/ InvalidBeacon)
       => /\ dec.pc = "failed"
          /\ ~Has(dec.ops, "open")
          /\ plainData = <<>>

\* C10 witness: Decrypt read a header whose stanza type is not "tlock" in
\* front of a written payload, and failed.
C10_Witness ==
  /\ Decrypting
  /\ WrongType
  /\ Len(cipherData) >= 2
  /\ enc.plain # <<>>
  /\ dec.pc = "failed"

\* the steps of Unwrap in the order of the source
UnwrapOrder ==
  <<"len", "type", "args", "round", "chain", "body", "ready", "verify", "g2", "g1", "ibe">>

\* the stanza handed to the Unwrap call has type "tlock" and two args
TwoArgTlock ==
  /\ IsUnwrap
  /\ Len(call.arg) = 1
  /\ call.arg[1].Type = "tlock"
  /\ Len(call.arg[1].Args) = 2

RoundUnparsable == ParseUint(call.arg[1].Args[1]).err # Nil

ChainMismatch == call.arg[1].Args[2] # ChainHash([chain |-> call.chain])

BodyMalformed == Len(call.arg[1].Body) # kyberPointLen + cipherVLen + cipherWLen

\* C12: Unwrap check order.  The steps an Unwrap call executes are an initial
\* part of the fixed order (stanza count, type, args count, round parse,
\* chain hash, body, readiness, beacon verification, point decoding, IBE
\* decrypt); of several violated checks the earliest decides the error: an
\* unparsable round wins over a wrong chain hash and a bad body, a wrong chain
\* hash wins over a bad body; and the network is asked only when every
\* envelope check has passed.
C12_UnwrapCheckOrder ==
  /\ IsUnwrap
       => /\ Len(call.ops) >= 1
          /\ call.ops = SubSeq(UnwrapOrder, 1, Len(call.ops))
  /\ (TwoArgTlock /\ RoundUnparsable)
       => /\ call.err.msg[1] = "parse block round"
          /\ call.ops[Len(call.ops)] = "round"
  /\ (TwoArgTlock /\ ~RoundUnparsable /\ ChainMismatch)
       => /\ call.err = ErrorsNew("wrong chainhash")
          /\ call.ops[Len(call.ops)] = "chain"
  /\ (TwoArgTlock /\ ~RoundUnparsable /\ ~ChainMismatch /\ BodyMalformed)
       => /\ call.err.msg[1] = "parse cipher dek"
          /\ call.ops[Len(call.ops)] = "body"
  /\ (IsUnwrap /\ Has(call.ops, "ready"))
       => /\ TwoArgTlock
          /\ ~RoundUnparsable
          /\ ~ChainMismatch
          /\ ~BodyMalformed

\* C12 witness: a stanza with a wrong chain hash and a 79-byte body was
\* unwrapped.
C12_Witness ==
  /\ TwoArgTlock
  /\ ~RoundUnparsable
  /\ ChainMismatch
  /\ Len(call.arg[1].Body) = 79

\* C12, a second case: an unparsable round together with a wrong chain hash.
C12_RoundAndChain == TwoArgTlock /\ RoundUnparsable /\ ChainMismatch

\* the context an Unwrap error starts with when the given step failed
FailureOf(step) ==
  CASE step = "len" -> <<"check stanzas length: should be one">>
    [] step = "type" -> <<"check stanza type: wrong type">>
    [] step = "args" -> <<"check stanza args: should be two">>
    [] step = "round" -> <<"parse block round">>
    [] step = "chain" -> <<"wrong chainhash">>
    [] step = "body" -> <<"parse cipher dek">>
    [] step = "ready" -> <<"decrypt dek", "too early to decrypt">>
    [] step = "verify" -> <<"decrypt dek", "verify beacon">>
    [] step = "g2" -> <<"decrypt dek", "unmarshal kyber G2">>
    [] step = "g1" -> <<"decrypt dek", "unmarshal kyber G1">>
    [] step = "ibe" -> <<"decrypt dek", "decrypt dek">>

\* how often a step occurs among the steps executed
Count(ops, step) == Cardinality({ i \in 1..Len(ops) : ops[i] = step })

LastStep == call.ops[Len(call.ops)]

\* C13: terminal failures, no retries.  An Unwrap call ends in exactly one
\* outcome, a file key with no error or an error with no file key; no step
\* is executed twice, so the network is asked at most once; and an error is
\* the error of the last step executed, so nothing runs after a failed step.
C13_TerminalFailures ==
  IsUnwrap
    => /\ (call.err = Nil) <=> (call.out # <<>>)
       /\ \A i \in 1..Len(call.ops) : Count(call.ops, call.ops[i]) = 1
       /\ Count(call.ops, "ready") <= 1
       /\ (call.err = Nil) => (LastStep = "ibe")
       /\ (call.err # Nil)
            => /\ Len(call.err.msg) >= Len(FailureOf(LastStep))
               /\ SubSeq(call.err.msg, 1, Len(FailureOf(LastStep))) = FailureOf(LastStep)

\* C13 witness: an Unwrap call failed at the beacon verification, after the
\* network had been asked.
C13_Witness ==
  /\ IsUnwrap
  /\ call.err # Nil
  /\ LastStep = "verify"
  /\ Count(call.ops, "ready") = 1

\* C13, further cases: the point decoding and the IBE decryption failed.
C13_G1Failed == IsUnwrap /\ call.err # Nil /\ LastStep = "g1"

C13_IbeFailed == IsUnwrap /\ call.err # Nil /\ LastStep = "ibe"

\* the Unwrap call was given a single tlock stanza that passes every envelope
\* check
EnvelopePasses ==
  /\ TwoArgTlock
  /\ ~RoundUnparsable
  /\ ~ChainMismatch
  /\ ~BodyMalformed

\* C14: not ready always means too early.  For a single tlock stanza that
\* passes the envelope checks the network is asked, and when it answers not
\* ready Unwrap fails with exactly "decrypt dek: too early to decrypt",
\* identifiable as ErrTooEarly, whatever the body holds and whatever bytes
\* came with the answer; the readiness query is the last step, so no beacon
\* verification, point decoding or IBE decryption is attempted.
C14_NotReadyIsTooEarly ==
  /\ EnvelopePasses => Has(call.ops, "ready")
  /\ (EnvelopePasses /\ ~call.answer.ready)
       => /\ call.err = Errorf("decrypt dek", ErrTooEarly)
          /\ ErrorsIs(call.err, "ErrTooEarly")
          /\ call.out = <<>>
          /\ LastStep = "ready"
          /\ ~Has(call.ops, "verify")
          /\ ~Has(call.ops, "g2")
          /\ ~Has(call.ops, "g1")
          /\ ~Has(call.ops, "ibe")

\* C14 witness: the U region of the body is no G1 point and the not-ready
\* answer came with signature bytes.
C14_Witness ==
  /\ EnvelopePasses
  /\ ~call.answer.ready
  /\ call.answer.id # <<>>
  /\ UnmarshalG1(parseCipherDEK(call.arg[1].Body).cd.kyberPoint).err # Nil

\* C15: exactly one stanza.  A successful Wrap returns a list of one stanza;
\* Unwrap of a list that is empty or holds two or more stanzas fails with
\* "check stanzas length: should be one" at the count check, the only step
\* executed: no stanza is inspected and the network is not asked.
C15_ExactlyOneStanza ==
  /\ (IsWrap /\ call.err = Nil) => (Len(call.out) = 1)
  /\ (IsWrap /\ call.err # Nil) => (Len(call.out) = 0)
  /\ (IsUnwrap /\ Len(call.arg) # 1)
       => /\ call.err = ErrorsNew("check stanzas length: should be one")
          /\ call.ops = <<"len">>
          /\ call.answer = NoAnswer
          /\ call.out = <<>>

\* C15 witness: Unwrap was given the wrapped stanza twice, on its chain,
\* when its round was published.
C15_Witness ==
  /\ IsUnwrap
  /\ Len(call.arg) = 2
  /\ wrapped # NoWrapped
  /\ Len(wrapped.fileKey) = 16
  /\ call.chain = wrapped.chain
  /\ wrapped.round <= published[wrapped.chain]
  /\ Unwrap([network |-> [chain |-> call.chain]], <<call.arg[1]>>,
            HonestAnswer([chain |-> call.chain], wrapped.round, published)).err = Nil

\* C15, the other case: Unwrap was given the empty list.
C15_EmptyList == IsUnwrap /\ call.arg = <<>>

\* the bytes of the fields parseCipherDEK returned
ParsedFields == [f \in {"kyberPoint", "cipherV", "cipherW"} |-> Read(heap, parse.cd[f])]

\* the body was built from a triple of 48, 16 and 16 bytes
TripleWellSized ==
  /\ parse.triple # NoTriple
  /\ Len(parse.triple.kyberPoint) = 48
  /\ Len(parse.triple.cipherV) = 16
  /\ Len(parse.triple.cipherW) = 16

C17_Parsed == parse.pc = "done" /\ TripleWellSized

C17_Rejected == parse.pc = "failed" /\ Len(parse.body) = 81

\* a 16-byte file key is wrapped
Wrapped16 == wrapped # NoWrapped /\ Len(wrapped.fileKey) = 16

\* the last call is an Unwrap that returned the wrapped file key
Recovered == IsUnwrap /\ call.err = Nil /\ call.out = wrapped.fileKey

\* what an Unwrap attempt for a wrapped 16-byte file key gives: too early
\* exactly while the wrapped round is unpublished, and the file key from the
\* first attempt after its publication on, however many attempts failed
C16_AttemptOutcome ==
  (IsUnwrap /\ Wrapped16)
    => /\ Has(call.ops, "ready")
       /\ call.answer = HonestAnswer([chain |-> wrapped.chain], wrapped.round, published)
       /\ call.answer.ready <=> (wrapped.round <= published[wrapped.chain])
       /\ call.answer.ready => Recovered
       /\ ~call.answer.ready
            => /\ ErrorsIs(call.err, "ErrTooEarly")
               /\ call.out = <<>>
               /\ attempts >= 1

\* C16: retry after too early succeeds.  An Unwrap attempt changes nothing
\* but the caller's view of its result: the stanza, the wrapped key and the
\* network are as before; attempts fail with ErrTooEarly while the round is
\* unpublished, and every attempt made once it is published returns the
\* wrapped file key, whatever the number of failed attempts before; and
\* when the network goes on publishing and the caller goes on retrying, a
\* wrapped 16-byte file key is eventually recovered.
C16_RetrySucceeds ==
  /\ []C16_AttemptOutcome
  /\ [][(call'.op = "Unwrap") => UNCHANGED <<published, stanzas, wrapped>>]_vars
  /\ (Wrapped16 ~> Recovered)

\* C16 witness: after MaxRetry attempts that were too early, an attempt
\* returned the wrapped file key of a round of chain A.
C16_Witness ==
  /\ Recovered
  /\ Wrapped16
  /\ wrapped.chain = "A"
  /\ attempts = MaxRetry

\* what the call of goroutine th returns when it runs alone on the shared
\* recipient and identity, with the same random sigma and network answer
IsolatedResult(th) ==
  IF th.op = "Wrap"
    THEN [NoResult EXCEPT
            !.stanzas = Wrap(RecipientOf(shared), th.arg, th.sigma, th.rngOk).stanzas,
            !.err = Wrap(RecipientOf(shared), th.arg, th.sigma, th.rngOk).err]
    ELSE [NoResult EXCEPT
            !.fileKey = Unwrap(IdentityOf(shared), th.arg, th.answer).fileKey,
            !.err = Unwrap(IdentityOf(shared), th.arg, th.answer).err,
            !.ops = Unwrap(IdentityOf(shared), th.arg, th.answer).ops]

C11_Isolation ==
  \A i \in DOMAIN threads :
    threads[i].pc = "done" => threads[i].res = IsolatedResult(threads[i])

============================================================================
